---- MODULE Spec2Model ----
(***************************************************************************)
(* libwasm executer (src/executer/src/main.rs): the process-wide instance  *)
(* cache LIBRARIES behind an RwLock, the on-demand loader resolve_import,  *)
(* the import resolver CombindedResolver::resolve and the top-level run of *)
(* main.  Every thread of the model performs one top-level run; a panic    *)
(* unwinds the run that raised it (nothing in the source catches it).      *)
(* A step is a stretch of code between two accesses to the shared cache    *)
(* or its lock; the engine (wasmer) is modelled at its interface:          *)
(* Module::from_file accepts or rejects a file, Instance::new asks the     *)
(* resolver for each declared import in order and fails on the first None. *)
(***************************************************************************)
EXTENDS Integers, Sequences, FiniteSets, TLC

\* ------------------------------------------------------------------ bounds
NumThreads == 2
MaxDepth == 3

Threads == 1..NumThreads

\* ------------------------------------------------- the engine's namespaces
WASI_NS == "wasi_snapshot_preview1"
EM_NS == "env"
WasiFuncs == {"fd_write", "proc_exit"}
EmMarkers == {"_emscripten_memcpy_big", "emscripten_memcpy_big", "__map_file"}
EmFuncs == EmMarkers \cup {"abort"}

\* ------------------------------------------------------ modules on the disk
\* Static metadata of a compiled module: declared imports in order, declared
\* exports; valid = the engine accepts the file's bytes.
Mod(imports, exports, valid) ==
    [imports |-> imports, exports |-> exports, valid |-> valid]

MODULES(id) ==
    CASE id = "app"     -> Mod(<< <<"mathlib", "add">> >>, {"main"}, TRUE)
      [] id = "mathlib" -> Mod(<< >>, {"add"}, TRUE)
      [] id = "two"     -> Mod(<< <<"leaf", "f">>, <<"leaf", "g">> >>, {"main"}, TRUE)
      [] id = "leaf"    -> Mod(<< >>, {"f", "g"}, TRUE)
      [] id = "miss"    -> Mod(<< <<"leaf", "f">>, <<"leaf", "missing">> >>, {"main"}, TRUE)
      [] id = "topB"    -> Mod(<< <<"libB", "f">> >>, {"main"}, TRUE)
      [] id = "libB"    -> Mod(<< <<"leaf", "f">> >>, {"f"}, TRUE)
      [] id = "ghost"   -> Mod(<< <<"nofile", "f">> >>, {"main"}, TRUE)
      [] id = "useBad"  -> Mod(<< <<"corrupt", "f">> >>, {"main"}, TRUE)
      [] id = "corrupt" -> Mod(<< >>, {}, FALSE)
      [] id = "wtop"    -> Mod(<< <<WASI_NS, "fd_write">>, <<"wlib", "f">> >>, {"_start"}, TRUE)
      [] id = "wlib"    -> Mod(<< <<WASI_NS, "proc_exit">> >>, {"f"}, TRUE)
      [] id = "wshadow" -> Mod(<< <<WASI_NS, "custom">>, <<WASI_NS, "fd_write">> >>, {"_start"}, TRUE)
      [] id = WASI_NS   -> Mod(<< >>, {"custom", "fd_write"}, TRUE)
      [] id = "etop"    -> Mod(<< <<EM_NS, "_emscripten_memcpy_big">>, <<"elib", "f">>, <<"leaf", "g">> >>, {"main"}, TRUE)
      [] id = "elib"    -> Mod(<< <<EM_NS, "__map_file">>, <<EM_NS, "abort">> >>, {"f"}, TRUE)
      [] id = "mixed"   -> Mod(<< <<WASI_NS, "fd_write">>, <<EM_NS, "__map_file">> >>, {"_start"}, TRUE)
      [] id = "loop"    -> Mod(<< <<"loop", "f">> >>, {"main", "f"}, TRUE)
      [] OTHER          -> Mod(<< >>, {}, FALSE)

\* Directory entries: the current working directory and ./libs.
Entry(dir, name, isFile) == [dir |-> dir, name |-> name, isFile |-> isFile]

FS ==
    { Entry("cwd", n, TRUE) :
        n \in {"app", "two", "leaf", "miss", "topB", "libB", "ghost", "useBad",
               "corrupt", "wtop", "wlib", "wshadow", WASI_NS, "etop", "elib",
               "mixed", "loop"} }
    \cup { Entry("cwd", "adir", FALSE), Entry("libs", "mathlib", TRUE) }

ModNames == { e.name : e \in FS } \cup {"nofile", EM_NS}

\* The executables a run may be started on (wasm_executable).
TopSeq == <<"app", "two", "miss", "topB", "ghost", "useBad", "corrupt",
            "wtop", "wshadow", "etop", "mixed", "loop">>
Tops == { TopSeq[i] : i \in 1..Len(TopSeq) }
Rank(top) == CHOOSE i \in 1..Len(TopSeq) : TopSeq[i] = top

\* Command lines: the -ld directories and the program arguments.  Nothing
\* in the program branches on either being empty, so the runs are started on
\* the command line that gives both, `-ld libs <executable> x`.
CmdLine(ld, av) == [ld |-> ld, args |-> av]
CmdLines == { CmdLine(<<"libs">>, <<"x">>) }

\* ---------------------------------------------------------------- handles
\* Arc<Instance>: identity is the allocation (thread, serial); mod is the
\* module the instance was created from.
Handle(m, t, n) == [mod |-> m, t |-> t, n |-> n]
NoHandle == Handle("", 0, 0)

Exports(h) == MODULES(h.mod).exports

\* ------------------------------------------------------- ABI classification
\* wasmer_wasi::is_wasi_module: some import is drawn from the WASI namespace.
IsWasi(m) ==
    \E i \in 1..Len(MODULES(m).imports) : MODULES(m).imports[i][1] = WASI_NS

\* wasmer_emscripten::is_emscripten_module: some import is env.<marker>.
IsEmscripten(m) ==
    \E i \in 1..Len(MODULES(m).imports) :
        /\ MODULES(m).imports[i][1] = EM_NS
        /\ MODULES(m).imports[i][2] \in EmMarkers

\* The if / else-if / else chain of main and of resolve_import.
ClassifyModule(m) ==
    IF IsWasi(m) THEN "wasi"
    ELSE IF IsEmscripten(m) THEN "emscripten"
    ELSE "none"

\* The command line's arguments handed to every WASI environment.
EnvArgsFor_TopArgs(kind, topArgs) == topArgs

\* The argument list handed to enable_wasi: args in main, &[] in the loader.
EnvArgsFor(kind, topArgs) == IF kind = "main" THEN topArgs ELSE << >>

\* env.resolve(index, module, field) of the attached ImportObject.
EnvResolve(env, module, field) ==
    \/ env = "wasi" /\ module = WASI_NS /\ field \in WasiFuncs
    \/ env = "emscripten" /\ module = EM_NS /\ field \in EmFuncs

\* The for loop over self.modules: entries named module that export field.
SiblingHits(modules, module, field) ==
    { i \in 1..Len(modules) :
        modules[i][1] = module /\ field \in Exports(modules[i][2]) }

FirstOf(S) == CHOOSE i \in S : \A j \in S : i <= j

\* The cascade with the sibling scan placed before the environment.
ResolveStage_SiblingFirst(env, modules, module, field) ==
    IF SiblingHits(modules, module, field) # {} THEN "sibling"
    ELSE IF EnvResolve(env, module, field) THEN "env"
    ELSE "dynamic"

\* The cascade of CombindedResolver::resolve: which stage answers.
ResolveStage(env, modules, module, field) ==
    IF EnvResolve(env, module, field) THEN "env"
    ELSE IF SiblingHits(modules, module, field) # {} THEN "sibling"
    ELSE "dynamic"

\* The directory scan of resolve_import: regular files of the current
\* working directory whose file name equals name.
Locate(name) ==
    { e \in FS : e.dir = "cwd" /\ e.isFile /\ e.name = name }

\* ------------------------------------------------------------------- state
VARIABLES
    exe,            \* the executable each thread's run is started on
    LIBRARIES,      \* the instance cache: module name -> handle (NoHandle = absent)
    SEARCH_PATHS,   \* directories pushed by -ld
    args,           \* the program arguments of the command line
    readers,        \* read guards of LIBRARIES held by each thread
    status,         \* "idle", "running", "done", "panicked"
    stack,          \* call stack of each thread: main / resolve_import frames
    ret,            \* the handle last returned by resolve_import to the thread
    serial,         \* instances created so far by each thread
    returned,       \* history: every (thread, name, handle) resolve_import returned
    lastRes,        \* history: how the thread's last resolve call was answered
    entry,          \* history: the entry-point call of the thread's run
    panicMsg,       \* history: the panic that ended the thread's run
    finalized       \* history: instances lines 229-230 have finalized

vars == <<exe, LIBRARIES, SEARCH_PATHS, args, readers, status, stack, ret, serial,
          returned, lastRes, entry, panicMsg, finalized>>

\* A frame is main (kind "main") or one call of resolve_import (kind "load")
\* together with the CombindedResolver it creates.
Frame(kind, name, mod, pc) ==
    [kind |-> kind, name |-> name, mod |-> mod, pc |-> pc,
     env |-> "none", envArgs |-> << >>, envPhase |-> "none",
     idx |-> 1, modules |-> << >>, loads |-> << >>, inst |-> NoHandle]

\* CombindedResolver::new followed by the if / else-if / else chain of main
\* (lines 144-161) and of resolve_import (lines 210-225): enable_wasi or
\* enable_emscripten attaches the environment before Instance::new runs.
Session(kind, name, mod, topArgs) ==
    [Frame(kind, name, mod, "resolve") EXCEPT
        !.env = ClassifyModule(mod),
        !.envArgs = IF ClassifyModule(mod) = "wasi"
                    THEN EnvArgsFor(kind, topArgs) ELSE << >>,
        !.envPhase = IF ClassifyModule(mod) = "none" THEN "none" ELSE "built"]

NoRes == [module |-> "", field |-> "", stage |-> "", env |-> "none",
          modules |-> << >>, export |-> NoHandle, some |-> FALSE]
NoEntry == [fn |-> "", argc |-> 0, argv |-> ""]

\* Threads are interchangeable, so the executables of the concurrent runs
\* are listed in one fixed order.
Init ==
    /\ exe \in { e \in [Threads -> Tops] :
                  \A t, u \in Threads : t < u => Rank(e[t]) <= Rank(e[u]) }
    /\ LIBRARIES = [n \in ModNames |-> NoHandle]
    /\ \E c \in CmdLines : SEARCH_PATHS = c.ld /\ args = c.args
    /\ readers = [t \in Threads |-> 0]
    /\ status = [t \in Threads |-> "idle"]
    /\ stack = [t \in Threads |-> << >>]
    /\ ret = [t \in Threads |-> NoHandle]
    /\ serial = [t \in Threads |-> 0]
    /\ returned = {}
    /\ lastRes = [t \in Threads |-> NoRes]
    /\ entry = [t \in Threads |-> NoEntry]
    /\ panicMsg = [t \in Threads |-> ""]
    /\ finalized = {}

Depth(t) == Len(stack[t])
Top(t) == stack[t][Len(stack[t])]
At(t, pc) == status[t] = "running" /\ Depth(t) > 0 /\ Top(t).pc = pc
SetTop(t, f) == [stack EXCEPT ![t] = [@ EXCEPT ![Len(@)] = f]]
Pop(t) == [stack EXCEPT ![t] = SubSeq(@, 1, Len(@) - 1)]
Import(f) == MODULES(f.mod).imports[f.idx]

\* A panic unwinds the thread: every frame is dropped and with it every
\* read guard the frames hold; the run ends.
Panic(t, msg) ==
    /\ status' = [status EXCEPT ![t] = "panicked"]
    /\ stack' = [stack EXCEPT ![t] = << >>]
    /\ readers' = [readers EXCEPT ![t] = 0]
    /\ panicMsg' = [panicMsg EXCEPT ![t] = msg]

\* ------------------------------------------------------------------- main
\* main, lines 124-161: compile the executable, create its resolver and
\* build its environment.
Start(t) ==
    /\ status[t] = "idle"
    /\ MODULES(exe[t]).valid
    /\ status' = [status EXCEPT ![t] = "running"]
    /\ stack' = [stack EXCEPT ![t] = << Session("main", exe[t], exe[t], args) >>]
    /\ UNCHANGED <<finalized, exe, LIBRARIES, SEARCH_PATHS, args, readers, ret, serial,
                   returned, lastRes, entry, panicMsg>>

\* main, line 124: Module::from_file(..).unwrap() on a file the engine rejects.
StartCompileFails(t) ==
    /\ status[t] = "idle"
    /\ ~MODULES(exe[t]).valid
    /\ Panic(t, "executable rejected")
    /\ UNCHANGED <<finalized, exe, LIBRARIES, SEARCH_PATHS, args, ret, serial, returned,
                   lastRes, entry>>

\* ------------------------------------------- CombindedResolver::resolve
\* Instance::new asks resolve for the next declared import.
Resolving(t) ==
    /\ At(t, "resolve")
    /\ Top(t).idx <= Len(MODULES(Top(t).mod).imports)

StageOf(f) == ResolveStage(f.env, f.modules, Import(f)[1], Import(f)[2])

Res(f, stage, h, some) ==
    [module |-> Import(f)[1], field |-> Import(f)[2], stage |-> stage,
     env |-> f.env, modules |-> f.modules, export |-> h, some |-> some]

\* lines 297-305: the environment answers.
ResolveEnv(t) ==
    /\ Resolving(t)
    /\ StageOf(Top(t)) = "env"
    /\ LET f == Top(t) IN
         /\ stack' = SetTop(t, [f EXCEPT !.idx = @ + 1])
         /\ lastRes' = [lastRes EXCEPT ![t] = Res(f, "env", NoHandle, TRUE)]
    /\ UNCHANGED <<finalized, exe, LIBRARIES, SEARCH_PATHS, args, readers, status, ret, serial,
                   returned, entry, panicMsg>>

\* lines 307-318: the first sibling named module that exports field answers.
ResolveSibling(t) ==
    /\ Resolving(t)
    /\ StageOf(Top(t)) = "sibling"
    /\ LET f == Top(t)
           i == FirstOf(SiblingHits(f.modules, Import(f)[1], Import(f)[2]))
       IN
         /\ stack' = SetTop(t, [f EXCEPT !.idx = @ + 1])
         /\ lastRes' = [lastRes EXCEPT ![t] = Res(f, "sibling", f.modules[i][2], TRUE)]
    /\ UNCHANGED <<finalized, exe, LIBRARIES, SEARCH_PATHS, args, readers, status, ret, serial,
                   returned, entry, panicMsg>>

\* line 324: neither answered; call resolve_import(module).
ResolveDynamic(t) ==
    /\ Resolving(t)
    /\ StageOf(Top(t)) = "dynamic"
    /\ Depth(t) < MaxDepth
    /\ LET f == Top(t) IN
         stack' = [stack EXCEPT ![t] =
                Append(SetTop(t, [f EXCEPT !.pc = "await",
                                           !.loads = Append(@, Import(f)[1])])[t],
                       Frame("load", Import(f)[1], "", "read"))]
    /\ UNCHANGED <<finalized, exe, LIBRARIES, SEARCH_PATHS, args, readers, status, ret, serial,
                   returned, lastRes, entry, panicMsg>>

\* The new pair replacing the list instead of being appended to it.
PushSibling_Replace(modules, name, h) == << <<name, h>> >>

\* line 326: self.modules.push((name, instance.clone())).
PushSibling(modules, name, h) == Append(modules, <<name, h>>)

\* lines 325-328: resolve_import returned and the instance exports field:
\* push (name, instance) onto self.modules (through the *const -> *mut cast
\* of line 326; resolve is reached through &dyn Resolver and nothing reads
\* self.modules afterwards, so the push is what the build does) and answer.
ResolveLoaded(t) ==
    /\ At(t, "await")
    /\ Import(Top(t))[2] \in Exports(ret[t])
    /\ LET f == Top(t) IN
         /\ stack' = SetTop(t, [f EXCEPT
                !.modules = PushSibling(@, Import(f)[1], ret[t]),
                !.idx = @ + 1,
                !.pc = "resolve"])
         /\ lastRes' = [lastRes EXCEPT ![t] = Res(f, "dynamic", ret[t], TRUE)]
    /\ ret' = [ret EXCEPT ![t] = NoHandle]
    /\ UNCHANGED <<finalized, exe, LIBRARIES, SEARCH_PATHS, args, readers, status, serial,
                   returned, entry, panicMsg>>

\* lines 329-332: the instance lacks field, resolve returns None; the engine
\* fails Instance::new with a link error and the caller's unwrap() panics
\* (lines 151, 163, 169, 217, 227, 235).
ResolveMissing(t) ==
    /\ At(t, "await")
    /\ Import(Top(t))[2] \notin Exports(ret[t])
    /\ lastRes' = [lastRes EXCEPT ![t] = Res(Top(t), "dynamic", ret[t], FALSE)]
    /\ Panic(t, "import unsatisfied")
    /\ ret' = [ret EXCEPT ![t] = NoHandle]
    /\ UNCHANGED <<finalized, exe, LIBRARIES, SEARCH_PATHS, args, serial, returned, entry>>

\* Instance::new returns Ok once every import is resolved.
Instantiated(t) ==
    /\ At(t, "resolve")
    /\ Top(t).idx > Len(MODULES(Top(t).mod).imports)
    /\ LET f == Top(t) IN
         stack' = SetTop(t, [f EXCEPT
                !.inst = Handle(f.mod, t, serial[t] + 1),
                !.pc = IF f.kind = "main" THEN "entry" ELSE "drop"])
    /\ serial' = [serial EXCEPT ![t] = @ + 1]
    /\ UNCHANGED <<finalized, exe, LIBRARIES, SEARCH_PATHS, args, readers, status, ret,
                   returned, lastRes, entry, panicMsg>>

\* ----------------------------------------------------------- resolve_import
Ret(t, name, h, hit) == [t |-> t, name |-> name, h |-> h, hit |-> hit]

\* lines 186-193: take the read lock, find name in the map, return the clone;
\* the guard is dropped on return.
LoadHit(t) ==
    /\ At(t, "read")
    /\ LIBRARIES[Top(t).name] # NoHandle
    /\ ret' = [ret EXCEPT ![t] = LIBRARIES[Top(t).name]]
    /\ returned' = returned \cup {Ret(t, Top(t).name, LIBRARIES[Top(t).name], TRUE)}
    /\ stack' = Pop(t)
    /\ UNCHANGED <<finalized, exe, LIBRARIES, SEARCH_PATHS, args, readers, status, serial,
                   lastRes, entry, panicMsg>>

\* lines 186-195: take the read lock, name is absent; the guard lib stays
\* alive in this frame until drop(lib) at line 240.  No write guard outlives
\* a step (LoadInsert), so read() can always be granted; a lock that makes
\* readers queue behind a waiting writer only delays this step.
LoadMiss(t) ==
    /\ At(t, "read")
    /\ LIBRARIES[Top(t).name] = NoHandle
    /\ readers' = [readers EXCEPT ![t] = @ + 1]
    /\ stack' = SetTop(t, [Top(t) EXCEPT !.pc = "find"])
    /\ UNCHANGED <<finalized, exe, LIBRARIES, SEARCH_PATHS, args, status, ret, serial,
                   returned, lastRes, entry, panicMsg>>

\* lines 196-225: a file named name is in the working directory and the
\* engine compiles it; a fresh resolver is created and its environment built.
LoadFind(t) ==
    /\ At(t, "find")
    /\ Locate(Top(t).name) # {}
    /\ MODULES(Top(t).name).valid
    /\ stack' = SetTop(t, Session("load", Top(t).name, Top(t).name, args))
    /\ UNCHANGED <<finalized, exe, LIBRARIES, SEARCH_PATHS, args, readers, status, ret, serial,
                   returned, lastRes, entry, panicMsg>>

\* line 248: no entry of the working directory matched.
LoadNotFound(t) ==
    /\ At(t, "find")
    /\ Locate(Top(t).name) = {}
    /\ Panic(t, "unable to resolve symbol")
    /\ UNCHANGED <<finalized, exe, LIBRARIES, SEARCH_PATHS, args, ret, serial, returned,
                   lastRes, entry>>

\* line 208: Module::from_file(..).unwrap() on a file the engine rejects.
LoadCompileFails(t) ==
    /\ At(t, "find")
    /\ Locate(Top(t).name) # {}
    /\ ~MODULES(Top(t).name).valid
    /\ Panic(t, "library rejected")
    /\ UNCHANGED <<finalized, exe, LIBRARIES, SEARCH_PATHS, args, ret, serial, returned,
                   lastRes, entry>>

\* The finalization left out.
FinalPhase_Skipped(env, phase) == phase

\* lines 224-230: the environment's phase once the instance exists: an
\* emscripten environment gets its memory bound and is set up.
FinalPhase(env, phase) == IF env = "emscripten" THEN "final" ELSE phase

\* lines 229-240: for an emscripten module env.set_memory and
\* set_up_emscripten on the new instance; then drop(lib) releases this
\* frame's read guard.
LoadDrop(t) ==
    /\ At(t, "drop")
    /\ readers' = [readers EXCEPT ![t] = @ - 1]
    /\ stack' = SetTop(t, [Top(t) EXCEPT
            !.envPhase = FinalPhase(Top(t).env, @),
            !.pc = "write"])
    /\ finalized' = finalized \cup
            (IF FinalPhase(Top(t).env, Top(t).envPhase) = "final"
             THEN {Top(t).inst} ELSE {})
    /\ UNCHANGED <<exe, LIBRARIES, SEARCH_PATHS, args, status, ret, serial,
                   returned, lastRes, entry, panicMsg>>

\* RwLock::write succeeds only when no read guard is alive in any thread.
WriteLockFree == \A u \in Threads : readers[u] = 0

\* An insert that keeps nothing but the new entry.
Insert_Evict(map, name, h) ==
    [n \in DOMAIN map |-> IF n = name THEN h ELSE NoHandle]

\* HashMap::insert of line 241: the value stored under name afterwards.
Insert(map, name, h) == [map EXCEPT ![name] = h]

\* lines 241-243: LIBRARIES.write().unwrap().insert(name, instance.clone())
\* in one statement (the write guard is a temporary), then return.
LoadInsert(t) ==
    /\ At(t, "write")
    /\ WriteLockFree
    /\ LIBRARIES' = Insert(LIBRARIES, Top(t).name, Top(t).inst)
    /\ ret' = [ret EXCEPT ![t] = Top(t).inst]
    /\ returned' = returned \cup {Ret(t, Top(t).name, Top(t).inst, FALSE)}
    /\ stack' = Pop(t)
    /\ UNCHANGED <<finalized, exe, SEARCH_PATHS, args, readers, status, serial, lastRes,
                   entry, panicMsg>>

\* line 241 reached while an enclosing resolve_import frame of the same
\* thread still holds its read guard: RwLock::write either blocks for ever
\* (no step) or, where the platform detects it, panics.
LoadWriteSelfDeadlock(t) ==
    /\ At(t, "write")
    /\ readers[t] > 0
    /\ Panic(t, "rwlock write lock would result in deadlock")
    /\ UNCHANGED <<finalized, exe, LIBRARIES, SEARCH_PATHS, args, ret, serial, returned,
                   lastRes, entry>>

\* ------------------------------------------------------- the entry point
EntryName(env) == IF env = "wasi" THEN "_start" ELSE "main"

\* What main passes as argv: nothing for WASI (line 158), guest memory for
\* emscripten (run_emscripten_instance copies the arguments in, line 165),
\* args.as_ptr() as i64 for a bare module (line 174).
ArgvOf(env) ==
    IF env = "wasi" THEN "none"
    ELSE IF env = "emscripten" THEN "guest"
    ELSE "host"

\* main lines 157-158, 165, 171-176: look the entry point up and call it.
MainEntry(t) ==
    /\ At(t, "entry")
    /\ EntryName(Top(t).env) \in Exports(Top(t).inst)
    /\ entry' = [entry EXCEPT ![t] =
            [fn |-> EntryName(Top(t).env),
             argc |-> IF Top(t).env = "wasi" THEN 0 ELSE Len(args),
             argv |-> ArgvOf(Top(t).env)]]
    /\ status' = [status EXCEPT ![t] = "done"]
    /\ stack' = Pop(t)
    /\ UNCHANGED <<finalized, exe, LIBRARIES, SEARCH_PATHS, args, readers, ret, serial,
                   returned, lastRes, panicMsg>>

Step(t) ==
    \/ Start(t)
    \/ StartCompileFails(t)
    \/ ResolveEnv(t)
    \/ ResolveSibling(t)
    \/ ResolveDynamic(t)
    \/ ResolveLoaded(t)
    \/ ResolveMissing(t)
    \/ Instantiated(t)
    \/ LoadHit(t)
    \/ LoadMiss(t)
    \/ LoadFind(t)
    \/ LoadNotFound(t)
    \/ LoadCompileFails(t)
    \/ LoadDrop(t)
    \/ LoadInsert(t)
    \/ LoadWriteSelfDeadlock(t)
    \/ MainEntry(t)

Next == \E t \in Threads : Step(t)

Spec == Init /\ [][Next]_vars

\* ================================================================== claims
Frames(t) == { stack[t][i] : i \in 1..Depth(t) }
Ended(t) == status[t] \in {"done", "panicked"}
LoadInFlight(n) ==
    \E t \in Threads : \E f \in Frames(t) : f.kind = "load" /\ f.name = n

\* C1: once no load of a name is in flight, every handle resolve_import
\* returned for that name is the one handle the cache stores under it.
C1_AllCallersGetStoredHandle ==
    \A n \in ModNames :
        ~LoadInFlight(n) =>
            \A r \in returned : r.name = n => r.h = LIBRARIES[n]

\* C2: any two successful loads of one name return the identical handle, and
\* at most one of them compiled and instantiated (the others are cache hits).
C2_LoadIdempotent ==
    \A r1, r2 \in returned :
        r1.name = r2.name =>
            /\ r1.h = r2.h
            /\ (r1 # r2 => r1.hit \/ r2.hit)

\* C3: the cache is append-only: a name bound to a handle stays bound to that
\* same handle in every later state.
C3_CacheAppendOnly ==
    [][\A n \in ModNames :
          LIBRARIES[n] # NoHandle => LIBRARIES'[n] = LIBRARIES[n]]_vars

\* A nested resolve_import that reached its insert while an enclosing frame of
\* the same thread still holds a read guard: it can never take the write lock.
SelfBlocked(t) == At(t, "write") /\ readers[t] > 0

\* C4: a load nested in another load finishes: no thread is stuck on the
\* cache lock behind its own guard, and no run dies on the lock.
C4_NestedLoadsFinish ==
    \A t \in Threads :
        /\ ~SelfBlocked(t)
        /\ panicMsg[t] # "rwlock write lock would result in deadlock"

\* C5: a thread that is compiling or instantiating inside resolve_import holds
\* no guard on the cache.
C5_NoLockAcrossInstantiate ==
    \A t \in Threads :
        (\E f \in Frames(t) :
            f.kind = "load" /\ f.pc \in {"find", "resolve", "await"})
        => readers[t] = 0

\* C6: resolve answers from the environment whenever the environment has the
\* import, otherwise from the first sibling named module that exports field,
\* and calls the loader only when both fail.
C6_ResolutionOrder ==
    \A t \in Threads :
        /\ LET r == lastRes[t]
               envSat == EnvResolve(r.env, r.module, r.field)
               sibs == SiblingHits(r.modules, r.module, r.field)
           IN r.stage # "" =>
                /\ envSat => r.stage = "env" /\ r.some /\ r.export = NoHandle
                /\ (~envSat /\ sibs # {}) =>
                        /\ r.stage = "sibling" /\ r.some
                        /\ r.export = r.modules[FirstOf(sibs)][2]
                /\ r.stage = "dynamic" <=> (~envSat /\ sibs = {})
        /\ \A f \in Frames(t) :
              f.pc = "await" =>
                /\ ~EnvResolve(f.env, Import(f)[1], Import(f)[2])
                /\ SiblingHits(f.modules, Import(f)[1], Import(f)[2]) = {}

\* C6 witness: the environment answered an import that a sibling of the same
\* name, loaded earlier in the session, exports as well.
C6_EnvBeforeSibling ==
    \E t \in Threads :
        /\ lastRes[t].stage = "env"
        /\ SiblingHits(lastRes[t].modules, lastRes[t].module, lastRes[t].field) # {}

\* C7: within one session the loader is invoked at most once per module name.
C7_LoaderOncePerSession ==
    \A t \in Threads : \A f \in Frames(t) :
        \A i, j \in 1..Len(f.loads) : f.loads[i] = f.loads[j] => i = j

\* C8: a load that finds no file, or whose file the engine rejects, ends with
\* an error value: the run that asked is not ended by a panic.
C8_LoadFailureIsAnErrorValue ==
    \A t \in Threads :
        panicMsg[t] \notin {"unable to resolve symbol", "library rejected"}

\* C9: an import whose module is located but lacks the field makes resolve
\* return nothing, and that does not end the run with a panic.
C9_MissingFieldIsNotAnAbort ==
    \A t \in Threads :
        (lastRes[t].stage # "" /\ ~lastRes[t].some) => status[t] # "panicked"

\* C10: with ./libs on the search path, a run of app (importing mathlib.add,
\* a file only ./libs holds) that has ended has called the entry point with
\* mathlib in the cache.
C10_SearchPathEndToEnd ==
    \A t \in Threads :
        (exe[t] = "app" /\ SEARCH_PATHS = <<"libs">> /\ Ended(t)) =>
            /\ status[t] = "done"
            /\ entry[t].fn = "main"
            /\ LIBRARIES["mathlib"] # NoHandle

\* The directories spec 4.3 has the locator search, in order: the working
\* directory, then every directory configured with -ld.
SearchList == <<"cwd">> \o SEARCH_PATHS
Holds(d, n) == \E e \in FS : e.dir = d /\ e.isFile /\ e.name = n

\* C11: the locator's answer is the match in the earliest directory of the
\* search list that holds a regular file of that name, and it is "none"
\* exactly when no directory of the list holds one.
C11_SearchOrder ==
    [][\A t \in Threads :
          At(t, "find") /\ stack'[t] # stack[t] =>
            LET n == Top(t).name
                hits == { i \in 1..Len(SearchList) : Holds(SearchList[i], n) }
            IN /\ panicMsg'[t] = "unable to resolve symbol" <=> hits = {}
               /\ hits # {} =>
                    \E e \in Locate(n) : e.dir = SearchList[FirstOf(hits)]]_vars

\* The ABI family spec 4.2 assigns to a module from its import namespaces.
ExpectedKind(m) ==
    IF IsWasi(m) /\ IsEmscripten(m) THEN "error"
    ELSE IF IsWasi(m) THEN "wasi"
    ELSE IF IsEmscripten(m) THEN "emscripten"
    ELSE "none"

\* C12: every module that reached instantiation, in main or in the loader,
\* was given the environment of its one ABI family; a module mixing WASI and
\* emscripten imports is given none (classification error).
C12_ClassificationExclusive ==
    \A t \in Threads : \A f \in Frames(t) :
        f.mod # "" => f.env = ExpectedKind(f.mod)

\* C13: no load of a name is entered while a load of the same name is still
\* in flight further down the same thread's call stack.
C13_NoReentrantLoad ==
    \A t \in Threads : \A i, j \in 1..Depth(t) :
        (i < j /\ stack[t][i].kind = "load" /\ stack[t][j].kind = "load")
            => stack[t][i].name # stack[t][j].name

\* Every handle another session can see: cache values and sibling entries.
Visible ==
    ({ LIBRARIES[n] : n \in ModNames } \ {NoHandle})
    \cup UNION { { f.modules[i][2] : i \in 1..Len(f.modules) } :
                 f \in UNION { Frames(t) : t \in Threads } }

\* C14: an environment is built before its module is instantiated, an
\* emscripten environment is finalized before the loader reaches the insert,
\* and every visible handle is a created instance that, if its module is an
\* emscripten module, has been finalized.
C14_BuiltThenFinalizedThenVisible ==
    /\ \A t \in Threads : \A f \in Frames(t) :
          /\ (f.pc \in {"resolve", "await"} /\ f.mod # ""
                /\ (IsWasi(f.mod) \/ IsEmscripten(f.mod)))
                => f.envPhase = "built" /\ f.inst = NoHandle
          /\ (f.pc = "write" /\ IsEmscripten(f.mod) /\ ~IsWasi(f.mod))
                => f.envPhase = "final" /\ f.inst \in finalized
    /\ \A h \in Visible :
          /\ h.n > 0
          /\ (IsEmscripten(h.mod) /\ ~IsWasi(h.mod)) => h \in finalized

\* C14 witness: an emscripten library is in the cache and on a sibling list.
C14_EmscriptenLibraryVisible ==
    /\ LIBRARIES["elib"] # NoHandle
    /\ \E t \in Threads : \E f \in Frames(t) :
          \E i \in 1..Len(f.modules) : f.modules[i][1] = "elib"

\* C15: a session's sibling list starts empty and only grows: a step leaves
\* the list of a live session unchanged or appends one pair at its end, and
\* a pair is appended only by the dynamic-fallback stage of resolve.
C15_SiblingListOnlyGrows ==
    [][\A t \in Threads :
          /\ \A i \in 1..Depth(t) :
                i <= Len(stack'[t]) =>
                    LET old == stack[t][i].modules
                        new == stack'[t][i].modules
                    IN \/ new = old
                       \/ /\ Len(new) = Len(old) + 1
                          /\ SubSeq(new, 1, Len(old)) = old
                          /\ i = Depth(t) /\ stack[t][i].pc = "await"
                          /\ lastRes'[t].stage = "dynamic"
                          /\ new[Len(new)] =
                                <<lastRes'[t].module, lastRes'[t].export>>
          /\ \A i \in (Depth(t) + 1)..Len(stack'[t]) :
                stack'[t][i].modules = << >>]_vars

\* C15 witness: a session that appended two siblings, one after the other.
C15_TwoSiblingsAppended ==
    \E t \in Threads : \E f \in Frames(t) : Len(f.modules) >= 2

\* C16: a WASI environment built by the loader has an empty argument list;
\* the command line's arguments are in the executable's environment only.
C16_LibraryArgsEmpty ==
    \A t \in Threads : \A f \in Frames(t) :
        f.env = "wasi" =>
            /\ f.kind = "load" => f.envArgs = << >>
            /\ f.kind = "main" => f.envArgs = args

\* C16 witness: a run started with arguments is loading a WASI library.
C16_WasiLibraryUnderArgs ==
    \E t \in Threads : \E f \in Frames(t) :
        f.kind = "load" /\ f.env = "wasi" /\ args # << >>

\* C17: the argv a bare executable's entry point receives is an offset into
\* the instance's own memory, never a host address.
C17_ArgvInGuestMemory ==
    \A t \in Threads : entry[t].argv # "host"

\* C18: every (name, handle) pair of every sibling list carries the handle
\* the cache binds to name.
C18_SiblingsAreCanonical ==
    \A t \in Threads : \A f \in Frames(t) :
        \A i \in 1..Len(f.modules) :
            f.modules[i][2] = LIBRARIES[f.modules[i][1]]

\* The imports of module m its own environment does not answer.
DynamicImports(m) ==
    { imp \in { MODULES(m).imports[i] : i \in 1..Len(MODULES(m).imports) } :
        ~EnvResolve(ClassifyModule(m), imp[1], imp[2]) }

\* C19: every cached module has each import its environment did not answer
\* provided by a cached module that exports the field.
C19_DependenciesCachedFirst ==
    \A n \in ModNames :
        LIBRARIES[n] # NoHandle =>
            \A imp \in DynamicImports(LIBRARIES[n].mod) :
                /\ LIBRARIES[imp[1]] # NoHandle
                /\ imp[2] \in Exports(LIBRARIES[imp[1]])

\* C19 witness: a library with a dynamic import of its own is in the cache.
C19_DependentCached ==
    \E n \in ModNames :
        LIBRARIES[n] # NoHandle /\ DynamicImports(LIBRARIES[n].mod) # {}

====
